---- MODULE Spec2Model ----
(***************************************************************************)
(* A model of artic/minion.py: the primer-scheme resolver get_scheme, the  *)
(* reference inspector get_nanopolish_header and the pipeline run (the     *)
(* command builder and the sequential executor).                           *)
(*                                                                         *)
(* Text is modelled structurally.  A path is a tuple of strings; a command *)
(* is a record naming its format string and the sequence of the values     *)
(* substituted into it, in the order of the format's arguments.            *)
(***************************************************************************)
EXTENDS Integers, Sequences, FiniteSets, TLC

VARIABLES
    args,               \* run's parsed command line (argparse namespace)
    fs,                 \* files under scheme_directory: path -> content
    hdf,                \* pools p for which <sample>.<p>.hdf exists on disk
    read_file_exists,   \* whether the resolved read file exists on disk
    pc,                 \* position of the thread of control
    frame,              \* get_scheme's locals, with the files present when it was
                        \* called (disk) and what the call did so far
    ret,                \* what the last completed get_scheme call returned
    calls,              \* number of get_scheme calls started
    bed, ref,           \* run's locals bed and ref
    read_file,          \* run's local read_file
    pools,              \* run's local pools, in the order the set enumerates
    nanopolish_header,  \* run's local nanopolish_header
    cmds,               \* run's local cmds
    logfh,              \* the run log's handle: "none" until open(log, 'w'),
                        \* then "open", then "closed"
    log,                \* the lines of <sample>.minion.log.txt
    executed,           \* the commands handed to os.system, in order, each with
                        \* the status os.system returned
    cmd_index,          \* position of the executor's for loop in cmds
    exit_code,          \* the process's exit status (-1 while running)
    failure             \* which raise site ended the process ("" if none)

scheme_vars == <<fs, pc, frame, ret, calls, exit_code, failure>>
build_vars == <<args, hdf, read_file_exists, read_file, pools, nanopolish_header, cmds>>
exec_vars == <<logfh, log, executed, cmd_index>>
vars == <<scheme_vars, bed, ref, build_vars, exec_vars>>

(***************************************************************************)
(* Bounds of the model.                                                    *)
(***************************************************************************)
MaxPools == 2       \* primer pools a scheme's bed file may name
MaxCalls == 2       \* get_scheme calls against one scheme directory

(***************************************************************************)
(* Python values.                                                          *)
(***************************************************************************)
\* None, as an argument that was not given.
None == <<"None">>

\* A scheme version keeps its Python type: 0 == "0" is False in Python.
PyInt(t) == [type |-> "int", text |-> t]
PyStr(t) == [type |-> "str", text |-> t]

\* "%s" % v for a version v: the type is lost in the text.
Fmt(v) == v.text

\* str.lower() on the scheme names of the model.
Lower(s) ==
    CASE s = "nCoV-2019" -> "ncov-2019"
      [] s = "SARS-CoV-2" -> "sars-cov-2"
      [] OTHER -> s

(***************************************************************************)
(* File contents.  A content is named by a string; Records gives the fasta *)
(* records SeqIO.parse finds in it and sha256 its digest.                  *)
(***************************************************************************)
Contents == {"", "BED1", "BED2", "REF1", "REF2", "MULTI", "ERR"}

\* hashlib.sha256(data).hexdigest(): distinct contents, distinct digests.
sha256(data) == <<"sha256", data>>

\* list(SeqIO.parse(open(ref), "fasta")): the records' ids and lengths.
Records(data) ==
    CASE data = "REF1" -> <<[id |-> "MN908947.3", len |-> 3]>>
      [] data = "REF2" -> <<[id |-> "MN908947.3", len |-> 4]>>
      [] data = "MULTI" -> <<[id |-> "chr1", len |-> 2], [id |-> "chr2", len |-> 2]>>
      [] OTHER -> <<>>

(***************************************************************************)
(* The remote manifest: schemes_manifest.json as requests.get(...).json()  *)
(* parses it.  Its "schemes" object is a sequence, in the document's order.*)
(***************************************************************************)
ManifestVersions == {"1", "2"}

manifest ==
    [schemes |-> <<
        [scheme |-> "ebola",
         aliases |-> {"zaire"},
         latest_version |-> PyStr("1"),
         primer_urls |-> [v \in {"1"} |-> "EBOLA_BED"],
         reference_urls |-> [v \in {"1"} |-> "MULTI"],
         primer_sha256_checksums |-> [v \in {"1"} |-> sha256("EBOLA_BED")],
         reference_sha256_checksums |-> [v \in {"1"} |-> sha256("MULTI")]],
        [scheme |-> "ncov-2019",
         aliases |-> {"sars-cov-2"},
         latest_version |-> PyStr("2"),
         primer_urls |-> [v \in ManifestVersions |-> "BED" \o v],
         reference_urls |-> [v \in ManifestVersions |-> "REF" \o v],
         primer_sha256_checksums |-> [v \in ManifestVersions |-> sha256("BED" \o v)],
         reference_sha256_checksums |-> [v \in ManifestVersions |-> sha256("REF" \o v)]]
    >>]

\* What a GET of a download url may answer: the document the url names, or
\* another body (an error page, a truncated or altered file).
Bodies(url) == {url, "ERR", ""}

(***************************************************************************)
(* get_scheme                                                              *)
(***************************************************************************)
\* "%s/%s/V%s/%s.<ext>" % (scheme_directory, scheme_name, scheme_version, scheme_name)
SchemePath(scheme_name, scheme_version, ext) ==
    <<"scheme_directory", scheme_name, "V" \o Fmt(scheme_version), scheme_name \o ext>>

\* scheme_name.split('/V'): a scheme name is held as the parts '/V' separates.
SplitName(scheme_name, scheme_version) ==
    IF Len(scheme_name) > 1
    THEN [scheme_name |-> scheme_name[1], scheme_version |-> PyStr(scheme_name[2])]
    ELSE [scheme_name |-> scheme_name[1], scheme_version |-> scheme_version]

\* os.path.exists(path)
Exists(path) == path \in DOMAIN fs

\* open(path, 'wt').write(text)
WriteFile(files, path, text) ==
    [p \in DOMAIN files \cup {path} |-> IF p = path THEN text ELSE files[p]]

\* A call of get_scheme: its parameters, then lines 68-74.
NewFrame(caller, scheme_name, scheme_version) ==
    LET s == SplitName(scheme_name, scheme_version) IN
    [caller |-> caller,
     arg_name |-> scheme_name,
     arg_version |-> scheme_version,
     scheme_name |-> s.scheme_name,
     scheme_version |-> s.scheme_version,
     bed |-> SchemePath(s.scheme_name, s.scheme_version, ".primer.bed"),
     ref |-> SchemePath(s.scheme_name, s.scheme_version, ".reference.fasta"),
     disk |-> DOMAIN fs,
     entry |-> 0,
     cached |-> FALSE,
     requests |-> <<>>,
     written |-> <<>>,
     hashed |-> <<>>]

NoFrame == [NewFrame("", <<"">>, PyStr("")) EXCEPT !.disk = {}]
NoResult == <<>>

\* ExitStatus with line 327 raising SystemExit(1) like the other sites.
ExitStatusOne(site) == IF site = "ManifestUnavailable" THEN 2 ELSE 1

\* The places where the process ends early, and the status each gives it:
\* the argument of its raise SystemExit, or 1 for an exception nothing catches.
ExitStatus(site) ==
    CASE site = "InvalidReference" -> 1          \* line 28
      [] site = "ChecksumMismatch" -> 1          \* line 42
      [] site = "ManifestUnavailable" -> 2       \* line 90
      [] site = "DownloadError" -> 1             \* lines 121 and 125
      [] site = "SchemeNotFound" -> 1            \* line 139
      [] site = "MedakaModelMissing" -> 1        \* line 146
      [] site = "ReadFileNotFound" -> 1          \* line 167
      [] site = "NanopolishInputsMissing" -> 1   \* line 180
      [] site = "StepFailed" -> 20               \* line 327

\* raise SystemExit(...), which nothing catches
SystemExit(site) ==
    /\ pc' = "exit"
    /\ exit_code' = ExitStatus(site)
    /\ failure' = site

\* Where control goes when get_scheme returns to its caller.
ReturnTo(caller) ==
    CASE caller = "run:150" -> "read_file"
      [] caller = "run:301" -> "finalize"
      [] OTHER -> "returned"

\* return bed, ref, scheme_version.  run (lines 150 and 301) assigns the first
\* two to its own bed and ref and drops the version.
Return ==
    /\ pc' = ReturnTo(frame.caller)
    /\ ret' = <<frame.bed, frame.ref, frame.scheme_version>>
    /\ IF frame.caller \in {"run:150", "run:301"}
       THEN bed' = frame.bed /\ ref' = frame.ref
       ELSE UNCHANGED <<bed, ref>>
    /\ UNCHANGED <<exit_code, failure>>

\* Line 75 looking for the bed file under the name of line 116.
CacheHitSchemeBed(f) ==
    /\ Exists(SchemePath(f.scheme_name, f.scheme_version, ".scheme.bed"))
    /\ Exists(f.ref)

\* The condition of line 75.
CacheHit(f) == Exists(f.bed) /\ Exists(f.ref)

\* Lines 75-84: return the cached pair, or go on to download.
GetSchemeLocal ==
    /\ pc = "get_scheme"
    /\ IF CacheHit(frame)
       THEN /\ Return
            /\ frame' = [frame EXCEPT !.cached = TRUE]
       ELSE /\ pc' = "manifest"
            /\ frame' = [frame EXCEPT !.cached = FALSE]
            /\ UNCHANGED <<ret, bed, ref, exit_code, failure>>
    /\ UNCHANGED <<fs, calls, build_vars, exec_vars>>

\* Lines 86-90: fetch the manifest; a RequestException ends the process.
GetSchemeManifest ==
    /\ pc = "manifest"
    /\ frame' = [frame EXCEPT !.requests = Append(@, "manifest")]
    /\ \/ /\ pc' = "match"
          /\ UNCHANGED <<exit_code, failure>>
       \/ SystemExit("ManifestUnavailable")
    /\ UNCHANGED <<fs, ret, calls, bed, ref, build_vars, exec_vars>>

\* The condition of line 93.
Matches(entry, scheme_name) ==
    \/ entry.scheme = Lower(scheme_name)
    \/ Lower(scheme_name) \in entry.aliases

\* The first item of the loop of line 92 that line 93 accepts (0: none).
FirstMatch(scheme_name) ==
    LET hits == {i \in 1..Len(manifest.schemes) : Matches(manifest.schemes[i], scheme_name)}
    IN IF hits = {} THEN 0 ELSE CHOOSE i \in hits : \A j \in hits : i <= j

\* Lines 100-117: the version to download and where to put it.
ResolveVersion(f, entry) ==
    IF f.scheme_version = PyInt("0")
    THEN [f EXCEPT !.scheme_version = entry.latest_version]
    ELSE IF f.scheme_version.type # "str"
            \/ f.scheme_version.text \notin DOMAIN entry.primer_urls
    THEN [f EXCEPT !.scheme_version = entry.latest_version,
                   !.bed = SchemePath(f.scheme_name, entry.latest_version, ".scheme.bed"),
                   !.ref = SchemePath(f.scheme_name, entry.latest_version, ".reference.fasta")]
    ELSE f

\* Lines 92-118 and 133-139: look the scheme up in the manifest.
GetSchemeMatch ==
    /\ pc = "match"
    /\ LET i == FirstMatch(frame.scheme_name) IN
       IF i = 0
       THEN /\ SystemExit("SchemeNotFound")
            /\ UNCHANGED frame
       ELSE /\ frame' = [ResolveVersion(frame, manifest.schemes[i]) EXCEPT !.entry = i]
            /\ pc' = "download_bed"
            /\ UNCHANGED <<exit_code, failure>>
    /\ UNCHANGED <<fs, ret, calls, bed, ref, build_vars, exec_vars>>

\* A download (lines 120-122 and 124-126): requests.get(url), then the body is
\* written to path.  A RequestException is not caught here: the interpreter
\* ends with a traceback and status 1.
Download(path, url, next) ==
    /\ \/ \E text \in Bodies(url) :
            /\ fs' = WriteFile(fs, path, text)
            /\ frame' = [frame EXCEPT !.requests = Append(@, url),
                                      !.written = Append(@, path)]
            /\ pc' = next
            /\ UNCHANGED <<exit_code, failure>>
       \/ /\ SystemExit("DownloadError")
          /\ frame' = [frame EXCEPT !.requests = Append(@, url)]
          /\ UNCHANGED fs
    /\ UNCHANGED <<ret, calls, bed, ref, build_vars, exec_vars>>

GetSchemeDownloadBed ==
    /\ pc = "download_bed"
    /\ Download(frame.bed,
                manifest.schemes[frame.entry].primer_urls[Fmt(frame.scheme_version)],
                "download_ref")

GetSchemeDownloadRef ==
    /\ pc = "download_ref"
    /\ Download(frame.ref,
                manifest.schemes[frame.entry].reference_urls[Fmt(frame.scheme_version)],
                "verify")

\* check_scheme_hashes without the comparison of lines 35-42.
check_scheme_hashes_skipped(filepath, manifest_hash) == filepath \in DOMAIN fs

\* check_scheme_hashes(filepath, manifest_hash): TRUE when it returns, FALSE
\* when it raises SystemExit(1).
check_scheme_hashes(filepath, manifest_hash) ==
    sha256(fs[filepath]) = manifest_hash

\* Lines 128-131: verify both files, then return.
GetSchemeVerify ==
    /\ pc = "verify"
    /\ LET entry == manifest.schemes[frame.entry]
           v == Fmt(frame.scheme_version)
           bed_ok == check_scheme_hashes(frame.bed, entry.primer_sha256_checksums[v])
           ref_ok == check_scheme_hashes(frame.ref, entry.reference_sha256_checksums[v])
       IN
       /\ frame' = [frame EXCEPT !.hashed =
                        IF bed_ok THEN <<frame.bed, frame.ref>> ELSE <<frame.bed>>]
       /\ IF bed_ok /\ ref_ok
          THEN Return
          ELSE /\ SystemExit("ChecksumMismatch")
               /\ UNCHANGED <<ret, bed, ref>>
    /\ UNCHANGED <<fs, calls, build_vars, exec_vars>>

get_scheme ==
    \/ GetSchemeLocal
    \/ GetSchemeManifest
    \/ GetSchemeMatch
    \/ GetSchemeDownloadBed
    \/ GetSchemeDownloadRef
    \/ GetSchemeVerify

(***************************************************************************)
(* The resolver on its own: calls of get_scheme, one after another, each   *)
(* by a process of its own against the same scheme directory.              *)
(***************************************************************************)
SchemeNames == {<<"nCoV-2019">>, <<"nCoV-2019", "1">>, <<"SARS-CoV-2">>, <<"unknown">>}
SchemeVersions == {PyInt("0"), PyStr("1"), PyStr("9")}

\* The scheme directory before the first call: empty, or holding a pair an
\* earlier run left at a cache path.
InitialCaches ==
    LET pair(n, v, b, r) == (SchemePath(n, v, ".primer.bed") :> b)
                            @@ (SchemePath(n, v, ".reference.fasta") :> r)
    IN {<<>>,
        pair("nCoV-2019", PyStr("1"), "BED1", "REF1"),
        pair("nCoV-2019", PyStr("1"), "BED1", "MULTI"),
        pair("nCoV-2019", PyStr("0"), "BED2", "REF2"),
        (SchemePath("nCoV-2019", PyStr("1"), ".primer.bed") :> "BED1")}

NoArgs == [sample |-> "sample"]

InitRunIdle ==
    /\ args = NoArgs
    /\ hdf = {}
    /\ read_file_exists = FALSE
    /\ bed = None
    /\ ref = None
    /\ read_file = None
    /\ pools = <<>>
    /\ nanopolish_header = None
    /\ cmds = <<>>
    /\ logfh = "none"
    /\ log = <<>>
    /\ executed = <<>>
    /\ cmd_index = 0

InitScheme ==
    /\ fs \in InitialCaches
    /\ pc = "idle"
    /\ frame = NoFrame
    /\ ret = NoResult
    /\ calls = 0
    /\ exit_code = -1
    /\ failure = ""
    /\ InitRunIdle

\* A process calls get_scheme(scheme_name, scheme_directory, scheme_version).
Resolve ==
    /\ pc \in {"idle", "returned", "exit"}
    /\ calls < MaxCalls
    /\ \E scheme_name \in SchemeNames, scheme_version \in SchemeVersions :
          frame' = NewFrame("caller", scheme_name, scheme_version)
    /\ pc' = "get_scheme"
    /\ calls' = calls + 1
    /\ ret' = NoResult
    /\ exit_code' = -1
    /\ failure' = ""
    /\ UNCHANGED <<fs, bed, ref, build_vars, exec_vars>>

NextScheme == Resolve \/ get_scheme

SpecScheme == InitScheme /\ [][NextScheme]_vars

(***************************************************************************)
(* run: the command builder                                                *)
(***************************************************************************)
\* An optional argument that was given: "if args.x" for the options of run.
Truthy(v) == v # None

\* One value a command names: the role it plays for the program and the text.
A(role, val) == [role |-> role, val |-> val]

\* A command: the source line that appends it, its format string, and the
\* values the format names, in the order the command line holds them.
Cmd(line, fmt, argv) == [line |-> line, fmt |-> fmt, argv |-> argv]

\* The string that cmds holds and the log prints.
Text(cmd) == <<cmd.fmt, cmd.argv>>

\* "%s.<ext>" % (args.sample) and "%s.%s.<ext>" % (args.sample, p)
SampleFile(ext) == <<args.sample, ext>>
PoolFile(p, ext) == <<args.sample, p, ext>>

\* The names read_bed_file may give in the PoolName column.
PoolName(i) == CASE i = 1 -> "1" [] i = 2 -> "2" [] i = 3 -> "3" [] OTHER -> "4"
PoolNumber(p) == CHOOSE i \in 1..4 : PoolName(i) = p

Range(seq) == {seq[i] : i \in 1..Len(seq)}

\* The orders in which iterating a Python set of these names may enumerate it.
Enumerations(S) ==
    {seq \in [1..Cardinality(S) -> S] : \A i, j \in 1..Cardinality(S) : seq[i] = seq[j] => i = j}

\* sorted(S)
Sorted(S) ==
    CHOOSE seq \in Enumerations(S) :
        \A i, j \in 1..Len(seq) : i < j => PoolNumber(seq[i]) < PoolNumber(seq[j])

\* The concatenation of f[p] over the pools p, in the order given.
RECURSIVE ForEach(_, _)
ForEach(order, f) ==
    IF order = <<>> THEN <<>> ELSE f[Head(order)] \o ForEach(Tail(order), f)

\* Lines 186-191 and 210-215: index the ref and align with minimap2 or bwa.
AlignCmds(first, r) ==
    (IF ~args.bwa
     THEN <<Cmd(first + 1, "minimap2 | samtools view | samtools sort",
                <<A("opt", args.threads), A("ref", r), A("reads", read_file),
                  A("out", SampleFile("sorted.bam"))>>)>>
     ELSE <<Cmd(first + 3, "bwa index", <<A("ref", r)>>),
            Cmd(first + 4, "bwa mem | samtools view | samtools sort",
                <<A("opt", args.threads), A("ref", r), A("reads", read_file),
                  A("out", SampleFile("sorted.bam"))>>)>>)
    \o <<Cmd(first + 5, "samtools index", <<A("in", SampleFile("sorted.bam"))>>)>>

\* Lines 194-197 and 218-221.
normalise_string ==
    IF Truthy(args.normalise) THEN <<"--normalise">> \o args.normalise ELSE <<"">>

\* Lines 198 and 223 (start = FALSE), line 222 (start = TRUE).
AlignTrim(line, start, b) ==
    Cmd(line, IF start THEN "align_trim --start | samtools sort" ELSE "align_trim | samtools sort",
        <<A("opt", normalise_string), A("bed", b),
          A("out", SampleFile("alignreport.txt")),
          A("in", SampleFile("sorted.bam")),
          A("out", SampleFile("alignreport.er")),
          A("tmp", <<args.sample>>),
          A("out", SampleFile(IF start THEN "trimmed.rg.sorted.bam"
                                       ELSE "primertrimmed.rg.sorted.bam"))>>)

\* Lines 184-205: the commands of the divergent pre-pass.
DivergentCmds(b, r) ==
    AlignCmds(186, r)
    \o <<AlignTrim(198, FALSE, b),
         Cmd(199, "samtools index", <<A("in", SampleFile("primertrimmed.rg.sorted.bam"))>>),
         Cmd(203, "bcftools mpileup | bcftools call",
             <<A("ref", r), A("in", SampleFile("primertrimmed.rg.sorted.bam")),
               A("out", SampleFile("pseudoreference.vcf.gz"))>>),
         Cmd(204, "bcftools index", <<A("in", SampleFile("pseudoreference.vcf.gz"))>>),
         Cmd(205, "bcftools consensus -f",
             <<A("ref", r), A("in", SampleFile("pseudoreference.vcf.gz")),
               A("out", SampleFile("pseudoreference.fasta"))>>)>>

\* Lines 222-226.
TrimCmds(b) ==
    <<AlignTrim(222, TRUE, b),
      AlignTrim(223, FALSE, b),
      Cmd(225, "samtools index", <<A("in", SampleFile("trimmed.rg.sorted.bam"))>>),
      Cmd(226, "samtools index", <<A("in", SampleFile("primertrimmed.rg.sorted.bam"))>>)>>

\* Lines 235-244: the body of the medaka loop for pool p.
MedakaCmds(p, r) ==
    <<Cmd(235, "medaka consensus",
          <<A("opt", args.medaka_model), A("opt", args.threads), A("rg", <<p>>),
            A("in", SampleFile("trimmed.rg.sorted.bam")), A("out", PoolFile(p, "hdf"))>>),
      Cmd(IF args.no_indels THEN 237 ELSE 239,
          IF args.no_indels THEN "medaka snp" ELSE "medaka variant",
          <<A("ref", r), A("in", PoolFile(p, "hdf")), A("out", PoolFile(p, "vcf"))>>)>>
    \o (IF args.no_longshot
        THEN <<Cmd(243, "medaka tools annotate",
                   <<A("rg", <<p>>), A("in", PoolFile(p, "vcf")), A("ref", r),
                     A("in", SampleFile("trimmed.rg.sorted.bam")),
                     A("out", <<"tmp.medaka-annotate.vcf">>)>>),
               Cmd(244, "mv",
                   <<A("in", <<"tmp.medaka-annotate.vcf">>), A("out", PoolFile(p, "vcf"))>>)>>
        ELSE <<>>)

\* Line 254: the body of the nanopolish loop for pool p.
NanopolishCmds(p, r) ==
    <<Cmd(254, "nanopolish variants",
          <<A("opt", args.max_haplotypes), A("opt", args.threads),
            A("reads", read_file), A("out", PoolFile(p, "vcf")),
            A("in", SampleFile("trimmed.rg.sorted.bam")), A("ref", r),
            A("opt", nanopolish_header), A("rg", <<p>>),
            A("opt", IF args.no_indels THEN <<" --snps">> ELSE <<"">>)>>)>>

\* Lines 231-254 with the loops' bodies run for the first pool only.
VariantCmdsFirstPool(order, r) ==
    IF args.medaka
    THEN MedakaCmds(Head(order), r)
    ELSE IF ~args.skip_nanopolish
    THEN NanopolishCmds(Head(order), r)
    ELSE <<>>

\* Lines 231-254: variant calling on each read group.
VariantCmds(order, r) ==
    IF args.medaka
    THEN ForEach(order, [p \in Range(order) |-> MedakaCmds(p, r)])
    ELSE IF ~args.skip_nanopolish
    THEN ForEach(order, [p \in Range(order) |-> NanopolishCmds(p, r)])
    ELSE <<>>

\* Lines 257-260: merge the called variants for each read group.
MergeCmd(order, b) ==
    Cmd(260, "artic_vcf_merge",
        <<A("opt", <<args.sample>>), A("bed", b),
          A("out", SampleFile("primersitereport.txt"))>>
        \o ForEach(order, [p \in Range(order) |->
                             <<A("rg", <<p>>), A("in", PoolFile(p, "vcf"))>>]))

\* Lines 277-280.
method == IF args.medaka THEN "medaka" ELSE "nanopolish"

\* Lines 264-289: check and filter the VCFs.
FilterCmds(b, r) ==
    (IF args.strict
     THEN <<Cmd(265, "bgzip -f", <<A("in", SampleFile("merged.vcf"))>>),
            Cmd(266, "tabix -p vcf", <<A("in", SampleFile("merged.vcf.gz"))>>),
            Cmd(267, "artic-tools check_vcf",
                <<A("out", SampleFile("merged.filtered.vcf")),
                  A("in", SampleFile("merged.vcf.gz")), A("bed", b),
                  A("out", SampleFile("vcfreport.txt"))>>),
            Cmd(268, "mv", <<A("in", SampleFile("merged.filtered.vcf")),
                             A("out", SampleFile("merged.vcf"))>>)>>
     ELSE <<>>)
    \o (IF args.medaka /\ ~args.no_longshot
        THEN <<Cmd(272, "bgzip -f", <<A("in", SampleFile("merged.vcf"))>>),
               Cmd(273, "tabix -f -p vcf", <<A("in", SampleFile("merged.vcf.gz"))>>),
               Cmd(274, "longshot",
                   <<A("in", SampleFile("primertrimmed.rg.sorted.bam")), A("ref", r),
                     A("out", SampleFile("merged.vcf")),
                     A("in", SampleFile("merged.vcf.gz"))>>)>>
        ELSE <<>>)
    \o <<Cmd(IF args.no_frameshifts /\ ~args.no_indels THEN 285 ELSE 287,
             IF args.no_frameshifts /\ ~args.no_indels
             THEN "artic_vcf_filter --no-frameshifts" ELSE "artic_vcf_filter",
             <<A("opt", <<method>>), A("in", SampleFile("merged.vcf")),
               A("out", SampleFile("pass.vcf")), A("out", SampleFile("fail.vcf"))>>),
         Cmd(288, "bgzip -f", <<A("in", SampleFile("pass.vcf"))>>),
         Cmd(289, "tabix -p vcf", <<A("in", SampleFile("pass.vcf.gz"))>>)>>

\* Lines 292-296 with line 293 ahead of line 292.
ConsensusCmdsMaskFirst(r) ==
    <<Cmd(293, "artic_mask",
          <<A("ref", r), A("in", SampleFile("coverage_mask.txt")),
            A("out", SampleFile("preconsensus.fasta"))>>),
      Cmd(292, "artic_make_depth_mask",
          <<A("ref", r), A("in", SampleFile("primertrimmed.rg.sorted.bam")),
            A("out", SampleFile("coverage_mask.txt"))>>),
      Cmd(296, "bcftools consensus -f -m -o",
          <<A("in", SampleFile("preconsensus.fasta")), A("in", SampleFile("pass.vcf.gz")),
            A("in", SampleFile("coverage_mask.txt")),
            A("out", SampleFile("consensus.fasta"))>>)>>

\* Lines 292-296: the coverage mask and the consensus sequence.
ConsensusCmds(r) ==
    <<Cmd(292, "artic_make_depth_mask",
          <<A("ref", r), A("in", SampleFile("primertrimmed.rg.sorted.bam")),
            A("out", SampleFile("coverage_mask.txt"))>>),
      Cmd(293, "artic_mask",
          <<A("ref", r), A("in", SampleFile("coverage_mask.txt")),
            A("out", SampleFile("preconsensus.fasta"))>>),
      Cmd(296, "bcftools consensus -f -m -o",
          <<A("in", SampleFile("preconsensus.fasta")), A("in", SampleFile("pass.vcf.gz")),
            A("in", SampleFile("coverage_mask.txt")),
            A("out", SampleFile("consensus.fasta"))>>)>>

\* Lines 304-315: header, alignment against the reference, final VCF, stats.
FinalCmds(b, r) ==
    <<Cmd(305, "artic_fasta_header",
          <<A("in", SampleFile("consensus.fasta")), A("opt", <<args.sample, "ARTIC", method>>)>>),
      Cmd(306, "cat",
          <<A("ref", r), A("in", SampleFile("consensus.fasta")),
            A("out", SampleFile("mafft.in.fasta"))>>),
      Cmd(307, "mafft",
          <<A("in", SampleFile("mafft.in.fasta")), A("out", SampleFile("mafft.out.fasta"))>>)>>
    \o (IF args.divergent
        THEN <<Cmd(311, "snp-sites || true",
                   <<A("in", SampleFile("mafft.out.fasta")), A("out", SampleFile("final.vcf"))>>)>>
        ELSE <<>>)
    \o (IF args.strict
        THEN <<Cmd(315, "artic_get_stats",
                   <<A("bed", b), A("in", SampleFile("alignreport.txt")),
                     A("in", SampleFile("vcfreport.txt")), A("opt", <<args.sample>>)>>)>>
        ELSE <<>>)

\* Line 207 left out: the scheme reference stays the working reference.
WorkingRefOriginal(r) == r

\* Line 207, when it runs: the working reference of the stages that follow.
WorkingRef(r) == IF args.divergent THEN SampleFile("pseudoreference.fasta") ELSE r

\* Lines 184-296: what the builder appends between the nanopolish index and
\* the consensus, for pools enumerated in the order given.
BuildCmds(order, b, r) ==
    (IF args.divergent THEN DivergentCmds(b, r) ELSE <<>>)
    \o AlignCmds(210, WorkingRef(r))
    \o TrimCmds(b)
    \o VariantCmds(order, WorkingRef(r))
    \o <<MergeCmd(order, b)>>
    \o FilterCmds(b, WorkingRef(r))
    \o ConsensusCmds(WorkingRef(r))

(***************************************************************************)
(* The files a command names.  The builder chains its commands by file     *)
(* name: what one command is told to write, a later one is told to read.   *)
(***************************************************************************)
\* "%s.gz" % (vcf_file) of line 289, and the .merged.vcf.gz of lines 266-274:
\* the name of the file that bgzip -f leaves for the file it is given.
Gz(path) == [path EXCEPT ![Len(path)] = @ \o ".gz"]

\* The files a command is told to read: its inputs and its reference.
Reads(cmd) == {a.val : a \in {x \in Range(cmd.argv) : x.role \in {"in", "ref"}}}

\* The files a command leaves: those it names as outputs, the compressed
\* file of a bgzip (lines 265-266, 272-273 and 288-289), and for the merge of
\* line 257, given the prefix args.sample, the <sample>.merged.vcf that lines
\* 265-287 go on to read.
Writes(cmd) ==
    {a.val : a \in {x \in Range(cmd.argv) : x.role = "out"}}
    \cup (IF cmd.fmt = "bgzip -f" THEN {Gz(cmd.argv[1].val)} ELSE {})
    \cup (IF cmd.fmt = "artic_vcf_merge" THEN {cmd.argv[1].val \o <<"merged.vcf">>} ELSE {})

(***************************************************************************)
(* get_nanopolish_header                                                   *)
(***************************************************************************)
\* Lines 25-29: TRUE when the reference holds exactly one record.
SingleRecord(path) == Len(Records(fs[path])) = 1

\* "%d" % n
Digits(n) ==
    CASE n = 0 -> "0" [] n = 1 -> "1" [] n = 2 -> "2" [] n = 3 -> "3" [] n = 4 -> "4"
      [] n = 5 -> "5" [] n = 6 -> "6" [] n = 7 -> "7" [] n = 8 -> "8" [] n = 9 -> "9"

\* Line 29 with len(recs[0]) for the span's end.
get_nanopolish_header_len(path) ==
    LET recs == Records(fs[path]) IN
    <<recs[1].id, ":", Digits(1), "-", Digits(recs[1].len)>>

\* Line 29: "%s:%d-%d" % (recs[0].id, 1, len(recs[0])+1)
get_nanopolish_header(path) ==
    LET recs == Records(fs[path]) IN
    <<recs[1].id, ":", Digits(1), "-", Digits(recs[1].len + 1)>>

(***************************************************************************)
(* run                                                                     *)
(***************************************************************************)
\* Lines 143-150 without the check of lines 144-146.
RunStartUnchecked ==
    /\ pc = "run"
    /\ frame' = NewFrame("run:150", args.scheme, args.scheme_version)
    /\ calls' = calls + 1
    /\ pc' = "get_scheme"
    /\ UNCHANGED <<exit_code, failure, fs, ret, bed, ref, build_vars, exec_vars>>

\* Lines 143-150: the medaka model check, then the call of get_scheme.
RunStart ==
    /\ pc = "run"
    /\ IF args.medaka /\ args.medaka_model = None
       THEN /\ SystemExit("MedakaModelMissing")
            /\ UNCHANGED <<frame, calls>>
       ELSE /\ frame' = NewFrame("run:150", args.scheme, args.scheme_version)
            /\ calls' = calls + 1
            /\ pc' = "get_scheme"
            /\ UNCHANGED <<exit_code, failure>>
    /\ UNCHANGED <<fs, ret, bed, ref, build_vars, exec_vars>>

\* Lines 160-167: set up the read file.
ReadFile ==
    /\ pc = "read_file"
    /\ read_file' = IF Truthy(args.read_file) THEN args.read_file
                                             ELSE SampleFile("fasta")
    /\ IF ~read_file_exists
       THEN SystemExit("ReadFileNotFound")
       ELSE pc' = "pools" /\ UNCHANGED <<exit_code, failure>>
    /\ UNCHANGED <<fs, frame, ret, calls, bed, ref, args, hdf, read_file_exists,
                   pools, nanopolish_header, cmds, exec_vars>>

\* The pool sets a bed file may name.
PoolSets == {{PoolName(i) : i \in 1..n} : n \in 1..MaxPools}

\* Lines 169-173: collect the primer pools into a set; cmds = [].
CollectPools ==
    /\ pc = "pools"
    /\ \E S \in PoolSets : pools' \in Enumerations(S)
    /\ cmds' = <<>>
    /\ pc' = "header"
    /\ UNCHANGED <<fs, frame, ret, calls, exit_code, failure, bed, ref, args, hdf,
                   read_file_exists, read_file, nanopolish_header, exec_vars>>

\* Lines 176-181 without the check of lines 178-180.
NanopolishIndexUnchecked ==
    /\ pc = "header"
    /\ IF ~SingleRecord(ref)
       THEN /\ SystemExit("InvalidReference")
            /\ UNCHANGED <<nanopolish_header, cmds>>
       ELSE /\ nanopolish_header' = get_nanopolish_header(ref)
            /\ cmds' = IF ~args.medaka /\ ~args.skip_nanopolish
                       THEN Append(cmds,
                                Cmd(181, "nanopolish index",
                                    <<A("in", args.sequencing_summary),
                                      A("in", args.fast5_directory),
                                      A("reads", args.read_file)>>))
                       ELSE cmds
            /\ pc' = "build"
            /\ UNCHANGED <<exit_code, failure>>
    /\ UNCHANGED <<fs, frame, ret, calls, bed, ref, args, hdf, read_file_exists,
                   read_file, pools, exec_vars>>

\* Lines 176-181: the reference header, then the nanopolish index.
NanopolishIndex ==
    /\ pc = "header"
    /\ IF ~SingleRecord(ref)
       THEN /\ SystemExit("InvalidReference")
            /\ UNCHANGED <<nanopolish_header, cmds>>
       ELSE /\ nanopolish_header' = get_nanopolish_header(ref)
            /\ IF ~args.medaka /\ ~args.skip_nanopolish
               THEN IF ~Truthy(args.fast5_directory) \/ ~Truthy(args.sequencing_summary)
                    THEN /\ SystemExit("NanopolishInputsMissing")
                         /\ UNCHANGED cmds
                    ELSE /\ cmds' = Append(cmds,
                                Cmd(181, "nanopolish index",
                                    <<A("in", args.sequencing_summary),
                                      A("in", args.fast5_directory),
                                      A("reads", args.read_file)>>))
                         /\ pc' = "build"
                         /\ UNCHANGED <<exit_code, failure>>
               ELSE /\ pc' = "build"
                    /\ UNCHANGED <<cmds, exit_code, failure>>
    /\ UNCHANGED <<fs, frame, ret, calls, bed, ref, args, hdf, read_file_exists,
                   read_file, pools, exec_vars>>

\* Lines 233-234, over the loop of line 232: the .hdf files left on disk.
RemoveHdf(files) == IF args.medaka THEN files \ Range(pools) ELSE files

\* Lines 184-296: build the commands up to the consensus.
Build ==
    /\ pc = "build"
    /\ cmds' = cmds \o BuildCmds(pools, bed, ref)
    /\ hdf' = RemoveHdf(hdf)
    /\ ref' = WorkingRef(ref)
    /\ pc' = "restore"
    /\ UNCHANGED <<fs, frame, ret, calls, exit_code, failure, bed, args,
                   read_file_exists, read_file, pools, nanopolish_header, exec_vars>>

\* Lines 299-301 left out: the pseudoref stays the ref.
RestoreReferenceSkipped ==
    /\ pc = "restore"
    /\ pc' = "finalize"
    /\ UNCHANGED <<frame, calls, fs, ret, exit_code, failure, bed, ref, build_vars,
                   exec_vars>>

\* Lines 299-301: reset the ref if a pseudoref was used.
RestoreReference ==
    /\ pc = "restore"
    /\ IF args.divergent
       THEN /\ frame' = NewFrame("run:301", args.scheme, args.scheme_version)
            /\ calls' = calls + 1
            /\ pc' = "get_scheme"
       ELSE /\ pc' = "finalize"
            /\ UNCHANGED <<frame, calls>>
    /\ UNCHANGED <<fs, ret, exit_code, failure, bed, ref, build_vars, exec_vars>>

\* Lines 304-319: the last commands, then the log file is opened.
Finalize ==
    /\ pc = "finalize"
    /\ cmds' = cmds \o FinalCmds(bed, ref)
    /\ logfh' = "open"
    /\ log' = <<>>
    /\ cmd_index' = 1
    /\ pc' = "execute"
    /\ UNCHANGED <<fs, frame, ret, calls, exit_code, failure, bed, ref, args, hdf,
                   read_file_exists, read_file, pools, nanopolish_header, executed>>

\* Line 331 taken for line 335 too: every line is timed.
LogLineTimed(cmd, dry_run) == <<Text(cmd), "timerStop-timerStart">>

\* Line 331 and line 335: the line the log gets for a command.
LogLine(cmd, dry_run) ==
    IF dry_run THEN <<Text(cmd)>> ELSE <<Text(cmd), "timerStop-timerStart">>

\* Lines 320-335 without the raise of line 327: a failed command is logged
\* like any other and the loop goes on.
ExecuteUnchecked ==
    /\ pc = "execute"
    /\ cmd_index <= Len(cmds)
    /\ LET cmd == cmds[cmd_index] IN
       /\ IF ~args.dry_run
          THEN \E retval \in {0, 1} :
                   executed' = Append(executed, <<Text(cmd), retval>>)
          ELSE UNCHANGED executed
       /\ log' = Append(log, LogLine(cmd, args.dry_run))
       /\ cmd_index' = cmd_index + 1
    /\ UNCHANGED <<fs, frame, ret, calls, bed, ref, build_vars, logfh, pc,
                   exit_code, failure>>

\* Lines 320-335: one turn of the executor's loop.
Execute ==
    /\ pc = "execute"
    /\ cmd_index <= Len(cmds)
    /\ LET cmd == cmds[cmd_index] IN
       IF ~args.dry_run
       THEN \E retval \in {0, 1} :
            /\ executed' = Append(executed, <<Text(cmd), retval>>)
            /\ IF retval # 0
               THEN /\ SystemExit("StepFailed")
                    /\ UNCHANGED <<log, cmd_index>>
               ELSE /\ log' = Append(log, LogLine(cmd, FALSE))
                    /\ cmd_index' = cmd_index + 1
                    /\ UNCHANGED <<pc, exit_code, failure>>
       ELSE /\ log' = Append(log, LogLine(cmd, TRUE))
            /\ cmd_index' = cmd_index + 1
            /\ UNCHANGED <<executed, pc, exit_code, failure>>
    /\ UNCHANGED <<fs, frame, ret, calls, bed, ref, build_vars, logfh>>

\* Line 336: the loop is over and the log is closed; run returns.
CloseLog ==
    /\ pc = "execute"
    /\ cmd_index > Len(cmds)
    /\ logfh' = "closed"
    /\ pc' = "done"
    /\ exit_code' = 0
    /\ UNCHANGED <<fs, frame, ret, calls, failure, bed, ref, build_vars, log,
                   executed, cmd_index>>

run ==
    \/ RunStart
    \/ ReadFile
    \/ CollectPools
    \/ NanopolishIndex
    \/ Build
    \/ RestoreReference
    \/ Finalize
    \/ Execute
    \/ CloseLog

(***************************************************************************)
(* The command lines run is started with.                                  *)
(***************************************************************************)
Optional(v) == {None, v}

\* Every combination of the options run reads.
ArgSpace ==
    [scheme : {<<"nCoV-2019">>},
     scheme_version : SchemeVersions,
     sample : {"sample"},
     read_file : Optional(<<"reads.fastq">>),
     medaka : BOOLEAN,
     medaka_model : Optional(<<"r941_min_high_g360">>),
     skip_nanopolish : BOOLEAN,
     fast5_directory : Optional(<<"fast5_pass">>),
     sequencing_summary : Optional(<<"sequencing_summary.txt">>),
     divergent : BOOLEAN,
     bwa : BOOLEAN,
     normalise : Optional(<<"200">>),
     strict : BOOLEAN,
     no_indels : BOOLEAN,
     no_longshot : BOOLEAN,
     no_frameshifts : BOOLEAN,
     dry_run : BOOLEAN,
     threads : {<<"8">>},
     max_haplotypes : {<<"1000000">>}]

\* An option run never reads under the chosen workflow is left at its default.
Canonical(a) ==
    /\ a.medaka => ~a.skip_nanopolish /\ a.fast5_directory = None
                   /\ a.sequencing_summary = None
    /\ ~a.medaka => a.medaka_model = None /\ ~a.no_longshot
    /\ a.skip_nanopolish => a.fast5_directory = None /\ a.sequencing_summary = None

\* The command lines of the whole run: the options that only change a
\* command's wording are left at their defaults.
RunArgs ==
    {a \in ArgSpace :
        /\ Canonical(a)
        /\ a.normalise = None /\ ~a.no_indels /\ ~a.no_frameshifts
        /\ a.read_file # None}

\* The command lines of the builder: nothing is executed, so dry_run is off.
BuildArgs == {a \in ArgSpace : Canonical(a) /\ ~a.dry_run}

\* The scheme directory when run starts: empty, or holding version 1 as an
\* earlier run left it, its reference of one record, of two, or of none.
RunCaches ==
    LET pair(b, r) == (SchemePath("nCoV-2019", PyStr("1"), ".primer.bed") :> b)
                      @@ (SchemePath("nCoV-2019", PyStr("1"), ".reference.fasta") :> r)
    IN {<<>>, pair("BED1", "REF1"), pair("BED1", "MULTI"), pair("BED1", "")}

InitRun(argset, caches) ==
    /\ args \in argset
    /\ fs \in caches
    /\ hdf \in IF args.medaka THEN {{}, {PoolName(1)}} ELSE {{}}
    /\ read_file_exists \in BOOLEAN
    /\ pc = "run"
    /\ frame = NoFrame
    /\ ret = NoResult
    /\ calls = 0
    /\ exit_code = -1
    /\ failure = ""
    /\ bed = None
    /\ ref = None
    /\ read_file = None
    /\ pools = <<>>
    /\ nanopolish_header = None
    /\ cmds = <<>>
    /\ logfh = "none"
    /\ log = <<>>
    /\ executed = <<>>
    /\ cmd_index = 0

Init == InitRun(RunArgs, RunCaches)

Next == run \/ get_scheme

Spec == Init /\ [][Next]_vars

(***************************************************************************)
(* The builder on its own: run up to the point where the log is opened.    *)
(***************************************************************************)
InitBuild ==
    InitRun(BuildArgs, {c \in RunCaches : \A f \in DOMAIN c : c[f] \notin {"MULTI", ""}})

NextBuild ==
    \/ RunStart
    \/ ReadFile
    \/ CollectPools
    \/ NanopolishIndex
    \/ Build
    \/ RestoreReference
    \/ Finalize
    \/ get_scheme

SpecBuild == InitBuild /\ [][NextBuild]_vars

(***************************************************************************)
(* Properties                                                              *)
(***************************************************************************)
\* The failure classes of the error taxonomy, by raise site.
FailureClass(site) ==
    CASE site \in {"MedakaModelMissing", "NanopolishInputsMissing", "ReadFileNotFound"}
           -> "ConfigurationError"
      [] site \in {"ManifestUnavailable", "SchemeNotFound", "ChecksumMismatch",
                   "DownloadError"}
           -> "SchemeResolutionError"
      [] site = "InvalidReference" -> "ReferenceValidationError"
      [] site = "StepFailed" -> "StepExecutionError"
      [] OTHER -> ""

RaiseSites ==
    {"InvalidReference", "ChecksumMismatch", "ManifestUnavailable", "DownloadError",
     "SchemeNotFound", "MedakaModelMissing", "ReadFileNotFound",
     "NanopolishInputsMissing", "StepFailed"}

\* The first command for which os.system returned non-zero (0: none so far).
FirstFailure ==
    LET failed == {i \in 1..Len(executed) : executed[i][2] # 0}
    IN IF failed = {} THEN 0 ELSE CHOOSE i \in failed : \A j \in failed : i <= j

\* C1. Fail-fast: when command k is the first for which os.system returns
\* non-zero, exactly the commands 1..k were handed to os.system, in the order
\* of cmds, no later one is, the process has ended with status 20, and the log
\* holds exactly the k-1 timed lines of the commands 1..k-1, in order.
C1_FailFast ==
    LET k == FirstFailure IN
    k # 0 =>
        /\ Len(executed) = k
        /\ \A i \in 1..k : executed[i][1] = Text(cmds[i])
        /\ Len(log) = k - 1
        /\ \A i \in 1..(k - 1) : Len(log[i]) = 2 /\ log[i][1] = Text(cmds[i])
        /\ pc = "exit"
        /\ exit_code = 20
        /\ failure = "StepFailed"

\* C1's case: the third or a later command fails and commands remain.
C1_Witness ==
    /\ FirstFailure >= 3
    /\ FirstFailure < Len(cmds)
    /\ pc = "exit"

\* C2. Dry run: os.system is never called; the executor cannot fail and can
\* always take its next turn; each log line is the command's text alone; and
\* when run returns the log holds one such line per command, in build order.
C2_DryRun ==
    args.dry_run =>
        /\ executed = <<>>
        /\ pc \in {"execute", "done"} =>
              /\ failure = ""
              /\ Len(log) = cmd_index - 1
              /\ \A i \in 1..Len(log) : log[i] = <<Text(cmds[i])>>
        /\ pc = "execute" => ENABLED (Execute \/ CloseLog)
        /\ pc = "done" =>
              /\ exit_code = 0
              /\ logfh = "closed"
              /\ Len(log) = Len(cmds)

\* C2's case: a dry run of ten or more commands has returned.
C2_Witness ==
    /\ args.dry_run
    /\ pc = "done"
    /\ Len(cmds) >= 10
    /\ Len(log) = Len(cmds)

\* C3. The medaka workflow without a medaka model: the process ends with the
\* status of a configuration error, and get_scheme was never called, no
\* command was built or executed and the log was never opened.
C3_MedakaModelRequired ==
    (args.medaka /\ args.medaka_model = None) =>
        /\ pc \in {"run", "exit"}
        /\ pc = "exit" => failure = "MedakaModelMissing" /\ exit_code = 1
        /\ calls = 0
        /\ frame = NoFrame
        /\ ret = NoResult
        /\ cmds = <<>>
        /\ executed = <<>>
        /\ logfh = "none"
        /\ log = <<>>

\* C3's case: such a run has ended.
C3_Witness ==
    /\ args.medaka
    /\ args.medaka_model = None
    /\ pc = "exit"

\* The nanopolish workflow, first pass not skipped, an input missing.
NanopolishInputsAbsent ==
    /\ ~args.medaka
    /\ ~args.skip_nanopolish
    /\ (args.fast5_directory = None \/ args.sequencing_summary = None)

\* C4 as claimed: with the nanopolish inputs absent the process ends with a
\* configuration error, before any command is executed and before the log is
\* created.
C4_Original ==
    NanopolishInputsAbsent =>
        /\ executed = <<>>
        /\ logfh = "none"
        /\ pc # "done"
        /\ pc = "exit" => FailureClass(failure) = "ConfigurationError"

\* C4, amended. With the nanopolish inputs absent no command is built or
\* executed and the log is never created; the process ends with status 1 or 2:
\* with the configuration error of line 180 once the scheme is resolved, the
\* read file found and the reference inspected, and otherwise with the error of
\* the one of those three that failed.
C4_NanopolishInputsRequired ==
    NanopolishInputsAbsent =>
        /\ cmds = <<>>
        /\ executed = <<>>
        /\ logfh = "none"
        /\ log = <<>>
        /\ pc \in {"run", "get_scheme", "manifest", "match", "download_bed",
                   "download_ref", "verify", "read_file", "pools", "header", "exit"}
        /\ pc = "exit" =>
              /\ exit_code \in {1, 2}
              /\ IF nanopolish_header # None
                 THEN failure = "NanopolishInputsMissing" /\ exit_code = 1
                 ELSE failure \in {"ManifestUnavailable", "SchemeNotFound",
                                   "DownloadError", "ChecksumMismatch",
                                   "ReadFileNotFound", "InvalidReference"}

\* C4's case: the check of line 178 has ended the run.
C4_Witness ==
    /\ NanopolishInputsAbsent
    /\ failure = "NanopolishInputsMissing"
    /\ pc = "exit"

\* The cache paths of the name and version a call asks for.
Requested(f) == SplitName(f.arg_name, f.arg_version)
CachedBed(f) ==
    SchemePath(Requested(f).scheme_name, Requested(f).scheme_version, ".primer.bed")
CachedRef(f) ==
    SchemePath(Requested(f).scheme_name, Requested(f).scheme_version, ".reference.fasta")
HitAtEntry(f) == CachedBed(f) \in f.disk /\ CachedRef(f) \in f.disk

\* C5. Cache hit: a call that finds both files at the cache paths of the
\* requested name and version makes no request, checks no digest, writes no
\* file, does not fail, and returns those two paths with the requested version.
C5_CacheHit ==
    (pc # "idle" /\ HitAtEntry(frame)) =>
        /\ pc \in {"get_scheme", "returned"}
        /\ frame.requests = <<>>
        /\ frame.hashed = <<>>
        /\ frame.written = <<>>
        /\ DOMAIN fs = frame.disk
        /\ pc = "returned" =>
              ret = <<CachedBed(frame), CachedRef(frame), Requested(frame).scheme_version>>

\* C5's case: a call that found both files has returned.
C5_Witness ==
    /\ pc = "returned"
    /\ HitAtEntry(frame)

\* The manifest's checksums for the scheme and version a call resolved.
ResolvedEntry(f) == manifest.schemes[FirstMatch(f.scheme_name)]
DigestsMatch(f) ==
    /\ sha256(fs[f.written[1]])
          = ResolvedEntry(f).primer_sha256_checksums[Fmt(f.scheme_version)]
    /\ sha256(fs[f.written[2]])
          = ResolvedEntry(f).reference_sha256_checksums[Fmt(f.scheme_version)]

\* C6. Checksum mismatch within one call: a call that downloaded both files
\* and has ended returned them, with the resolved version, only if both
\* digests match the manifest's checksums for that version; otherwise it ended
\* the process with ChecksumMismatch (status 1) and returned nothing.
C6_ChecksumMismatch ==
    (Len(frame.written) = 2 /\ pc \in {"returned", "exit"}) =>
        IF DigestsMatch(frame)
        THEN /\ pc = "returned"
             /\ ret = <<frame.written[1], frame.written[2], frame.scheme_version>>
        ELSE /\ pc = "exit"
             /\ failure = "ChecksumMismatch"
             /\ exit_code = 1
             /\ ret = NoResult

\* C6's case: the bed file verified, the reference did not, and the call failed.
C6_Witness ==
    /\ Len(frame.written) = 2
    /\ pc = "exit"
    /\ frame.hashed = <<frame.written[1], frame.written[2]>>
    /\ ~DigestsMatch(frame)

\* The command list is complete: the log is about to be opened for it.
Built == pc = "execute" /\ cmd_index = 1 /\ log = <<>>

\* The commands the loops of lines 232 and 253 append, and among them the
\* one that calls a pool's variants.
FanOut(cmd) == cmd.line \in 235..254
VariantCall(cmd) == cmd.fmt \in {"medaka snp", "medaka variant", "nanopolish variants"}
VariantCalls == SelectSeq(cmds, VariantCall)

\* The pool names a command embeds, as a read group or in a file's name.
PoolsIn(cmd) ==
    {a.val[1] : a \in {x \in Range(cmd.argv) : x.role = "rg"}}
    \cup {a.val[2] : a \in {x \in Range(cmd.argv) :
                               x.role \in {"in", "out"} /\ Len(x.val) = 3}}

\* One variant call per pool, each command of the fan-out naming one pool.
OnePerPool ==
    LET calling == VariantCalls IN
    /\ Len(calling) = Len(pools)
    /\ \A i \in 1..Len(cmds) : FanOut(cmds[i]) => Cardinality(PoolsIn(cmds[i])) = 1
    /\ \A i, j \in 1..Len(calling) : PoolsIn(calling[i]) = PoolsIn(calling[j]) => i = j
    /\ \A i \in 1..Len(calling) : PoolsIn(calling[i]) \subseteq Range(pools)

\* C7 as claimed: for every configuration the built list holds one variant
\* call per pool, each embedding exactly one pool, distinct calls distinct pools.
C7_Original == Built => OnePerPool

\* C7, amended. That holds for the medaka workflow and for the nanopolish
\* workflow whose first pass is not skipped; with --skip-nanopolish the built
\* list holds no per-pool command at all.
C7_PerPoolFanOut ==
    Built =>
        IF args.medaka \/ ~args.skip_nanopolish
        THEN OnePerPool
        ELSE \A i \in 1..Len(cmds) : ~FanOut(cmds[i])

\* C7's case: a list built for two pools with the fan-out in it.
C7_Witness ==
    /\ Built
    /\ Len(pools) = 2
    /\ Len(VariantCalls) = 2

\* The read groups a command names, in the order it names them.
ReadGroups(cmd) ==
    LET rg == SelectSeq(cmd.argv, LAMBDA a : a.role = "rg")
    IN [i \in 1..Len(rg) |-> rg[i].val[1]]

\* C8 as claimed: the variant calls, and the per-pool arguments of the merge
\* command, come in sorted pool-name order, however the set is enumerated, so
\* the built list is a function of the configuration and the pool set.
C8_SortedPoolOrder ==
    Built =>
        LET calling == VariantCalls
            merge == SelectSeq(cmds, LAMBDA c : c.fmt = "artic_vcf_merge")
        IN /\ Len(merge) = 1
           /\ ReadGroups(merge[1]) = Sorted(Range(pools))
           /\ calling # <<>> =>
                 [i \in 1..Len(calling) |-> ReadGroups(calling[i])[1]]
                    = Sorted(Range(pools))

\* The stages of the builder, as source lines: the divergent pre-pass (stage
\* 2), primary alignment to consensus (stages 3 to 10), and what follows the
\* consensus (stage 11 onward).
DivergentStage == 184..207
WorkingStage == 209..296
FinalStage == 298..315

\* The reference paths named by the commands appended on the lines given.
RefsOf(lines) ==
    UNION {{a.val : a \in {x \in Range(cmds[i].argv) : x.role = "ref"}} :
              i \in {j \in 1..Len(cmds) : cmds[j].line \in lines}}

\* C9 as claimed: in divergent mode the reference of the pre-pass commands
\* differs from the reference of the finalization commands.
C9_Original ==
    (Built /\ args.divergent) =>
        /\ RefsOf(DivergentStage) # {}
        /\ RefsOf(FinalStage) # {}
        /\ RefsOf(DivergentStage) \cap RefsOf(FinalStage) = {}

\* C9, amended. In divergent mode the reference of the commands of stages 3 to
\* 10, the pseudo-reference, differs from the reference of the finalization
\* commands and from the reference of the pre-pass commands.
C9_PseudoReferenceConfined ==
    (Built /\ args.divergent) =>
        /\ RefsOf(WorkingStage) = {SampleFile("pseudoreference.fasta")}
        /\ RefsOf(DivergentStage) # {}
        /\ RefsOf(FinalStage) # {}
        /\ RefsOf(WorkingStage) \cap RefsOf(FinalStage) = {}
        /\ RefsOf(WorkingStage) \cap RefsOf(DivergentStage) = {}

\* C9's case: a divergent-mode list is built.
C9_Witness ==
    /\ Built
    /\ args.divergent
    /\ calls = 2

\* C10 as claimed: a failure ends the process with a non-zero status that no
\* raise site of another failure class gives.
C10_Original ==
    failure # "" =>
        /\ exit_code # 0
        /\ \A site \in RaiseSites :
              FailureClass(site) # FailureClass(failure) => ExitStatus(site) # exit_code

\* C10, amended. Every failure ends the process with a non-zero status: 20 for
\* a StepExecutionError and for nothing else, 2 for a SchemeResolutionError
\* only (the manifest fetch), and 1 for every ConfigurationError and
\* ReferenceValidationError and for the other SchemeResolutionErrors.
C10_FailureSignals ==
    /\ pc = "exit" <=> failure # ""
    /\ failure # "" =>
          /\ failure \in RaiseSites
          /\ exit_code \in {1, 2, 20}
          /\ exit_code = 20 <=> FailureClass(failure) = "StepExecutionError"
          /\ exit_code = 2 => FailureClass(failure) = "SchemeResolutionError"
          /\ FailureClass(failure) \in {"ConfigurationError", "ReferenceValidationError"}
                => exit_code = 1

\* C10's case: a reference validation error has ended the process with the
\* status of a configuration error.
C10_Witness ==
    /\ pc = "exit"
    /\ FailureClass(failure) = "ReferenceValidationError"
    /\ exit_code = ExitStatus("MedakaModelMissing")

\* The records of the reference that run's first get_scheme call returned,
\* while no later call has touched the scheme directory.
Inspected == frame.caller = "run:150" /\ ret # NoResult
InspectedRecords == Records(fs[ret[2]])

\* C11. Reference inspector: a reference of no record, or of two or more,
\* ends the run with InvalidReference (status 1) as soon as it is inspected,
\* with no command built or executed and no log; a reference of one record
\* with id R and length L gives the header "R:1-<L+1>"; and under either
\* workflow no command is built or executed before the header is set.
C11_ReferenceInspector ==
    /\ (Inspected /\ Len(InspectedRecords) # 1) =>
          /\ pc \in {"read_file", "pools", "header", "exit"}
          /\ pc = "exit" => failure \in {"ReadFileNotFound", "InvalidReference"}
          /\ nanopolish_header = None
    /\ failure = "InvalidReference" =>
          /\ Inspected
          /\ Len(InspectedRecords) # 1
          /\ exit_code = 1
          /\ cmds = <<>> /\ executed = <<>> /\ logfh = "none"
    /\ (Inspected /\ nanopolish_header # None) =>
          /\ Len(InspectedRecords) = 1
          /\ nanopolish_header = <<InspectedRecords[1].id, ":", "1", "-",
                                   Digits(InspectedRecords[1].len + 1)>>
    /\ (cmds # <<>> \/ executed # <<>> \/ logfh # "none") => nanopolish_header # None

\* C11's case: the medaka workflow, stopped by a reference of no record.
C11_Witness ==
    /\ args.medaka
    /\ failure = "InvalidReference"
    /\ InspectedRecords = <<>>

\* A file on disk that is not the document of any manifest url: an error page
\* or an empty body.  No scheme directory starts with one under SpecScheme, so
\* such a file was written by a download, and its digest matches no checksum.
CorruptDownload(path) == path \in DOMAIN fs /\ fs[path] \in {"ERR", ""}

\* C12 as claimed: over any sequence of get_scheme calls against one scheme
\* directory, no call returns a path whose file is a download that did not
\* match the manifest checksum, be it the call that downloaded the file or a
\* later one.
C12_CorruptNeverReturned ==
    (pc = "returned" /\ ret # NoResult) =>
        /\ ~CorruptDownload(ret[1])
        /\ ~CorruptDownload(ret[2])

\* A sample-prefixed file: one the pipeline itself names after args.sample.
Intermediate(path) == path[1] = args.sample

\* The sample-prefixed files command i reads that no earlier command writes.
Unwritten(i) ==
    {f \in Reads(cmds[i]) :
        Intermediate(f) /\ \A j \in 1..(i - 1) : f \notin Writes(cmds[j])}

\* C13 as claimed: for every configuration and pool set, every sample-prefixed
\* file a built command reads is written by a command earlier in the list.
C13_Original == Built => \A i \in 1..Len(cmds) : Unwritten(i) = {}

\* C13, amended. That holds for the medaka workflow and for the nanopolish
\* workflow whose first pass is not skipped.  With --skip-nanopolish the merge
\* command reads one <sample>.<pool>.vcf per pool that no command of the list
\* writes; every other sample-prefixed file read is written earlier.
C13_DataFlowOrdering ==
    Built =>
        \A i \in 1..Len(cmds) :
            IF ~args.medaka /\ args.skip_nanopolish /\ cmds[i].fmt = "artic_vcf_merge"
            THEN Unwritten(i) = {PoolFile(pools[k], "vcf") : k \in 1..Len(pools)}
            ELSE Unwritten(i) = {}

\* C13's case: a list with the medaka fan-out over two pools, the strict
\* filter, longshot and the divergent pre-pass, each command of which but the
\* first aligner reads a file an earlier one wrote.
C13_Witness ==
    /\ Built
    /\ args.medaka /\ args.strict /\ args.divergent /\ ~args.no_longshot
    /\ Len(pools) = 2
    /\ \E i \in 1..Len(cmds) :
          cmds[i].fmt = "artic_get_stats"
          /\ {f \in Reads(cmds[i]) : Intermediate(f)} # {}

\* C14. Working-reference threading.  In divergent mode every command of
\* stages 3 to 10 that takes a reference takes the pseudo-reference;
\* get_scheme is called a second time, from line 301, when the consensus
\* command of line 296 is the last one built; and every finalization command
\* that takes a reference takes the one that second call returned, which is
\* not the pseudo-reference.  Otherwise get_scheme is called once and every
\* command that takes a reference takes the one it returned.
C14_WorkingReference ==
    /\ calls <= 2
    /\ frame.caller = "run:301" <=> calls = 2
    /\ calls = 2 => args.divergent
    /\ (calls = 2 /\ ~Built) => cmds[Len(cmds)].line = 296
    /\ Built =>
          IF args.divergent
          THEN /\ calls = 2
               /\ RefsOf(WorkingStage) = {SampleFile("pseudoreference.fasta")}
               /\ RefsOf(FinalStage) = {ret[2]}
               /\ ret[2] # SampleFile("pseudoreference.fasta")
          ELSE /\ calls = 1
               /\ RefsOf(181..315) = {ret[2]}

\* C14's case: a divergent-mode list of the medaka workflow with longshot and
\* bwa is built, its finalization on the reference of the second call.
C14_Witness ==
    /\ Built
    /\ args.divergent /\ args.medaka /\ ~args.no_longshot /\ args.bwa
    /\ frame.caller = "run:301"
    /\ RefsOf(FinalStage) = {ret[2]}

\* C15 as claimed: whenever get_scheme returns (bed, ref, version), bed and
\* ref are the cache paths <directory>/<name>/V<version>/<name>.primer.bed and
\* <name>.reference.fasta of that returned version, whatever the version hint.
C15_ReturnedPathsLayout ==
    (pc = "returned" /\ ret # NoResult) =>
        /\ ret[1] = SchemePath(frame.scheme_name, ret[3], ".primer.bed")
        /\ ret[2] = SchemePath(frame.scheme_name, ret[3], ".reference.fasta")

\* C16 as claimed: at the moment get_scheme returns, on a cache hit as on a
\* download, both returned paths exist on disk and neither file is empty.
C16_ReturnedFilesNonEmpty ==
    (pc = "returned" /\ ret # NoResult) =>
        /\ Exists(ret[1]) /\ fs[ret[1]] # ""
        /\ Exists(ret[2]) /\ fs[ret[2]] # ""

\* C17 as claimed: no step of run, under any configuration, a dry run
\* included, deletes a sample file that was on disk: the .hdf files present
\* before a step are present after it.
C17_BuilderPurity == [][hdf \subseteq hdf']_vars

\* C18 as claimed: in a built list, no file that a per-pool command of one
\* pool writes is written or read by a per-pool command of another pool, and
\* every file a per-pool command writes is named <sample>.<pool>.<ext> for the
\* command's own pool.
C18_PoolNameIsolation ==
    Built =>
        /\ \A i, j \in 1..Len(cmds) :
              (FanOut(cmds[i]) /\ FanOut(cmds[j]) /\ PoolsIn(cmds[i]) # PoolsIn(cmds[j]))
                 => Writes(cmds[i]) \cap (Writes(cmds[j]) \cup Reads(cmds[j])) = {}
        /\ \A i \in 1..Len(cmds) :
              FanOut(cmds[i]) =>
                 \A f \in Writes(cmds[i]) : Len(f) = 3 /\ PoolsIn(cmds[i]) = {f[2]}

\* C19 as claimed: in a built list every command that names the read file
\* names the path run resolved (args.read_file, or <sample>.fasta when the
\* option is absent), and no command holds an absent value for an argument.
C19_ReadFileSubstituted ==
    Built =>
        \A i \in 1..Len(cmds) :
            \A a \in Range(cmds[i].argv) :
                /\ a.role = "reads" => a.val = read_file
                /\ a.val # None

\* C20 as claimed: when run's first get_scheme call downloaded and verified
\* the scheme and returned (bed, ref, version), the call that line 301 makes
\* next, with the same name, directory and version hint, finds both of its
\* files at line 75, so that it makes no request, and what it returns at line
\* 76 is the same (bed, ref, version), whatever the version hint.
C20_ResolveIdempotent ==
    [][(pc = "restore" /\ args.divergent /\ Len(frame.written) = 2) =>
          /\ frame'.caller = "run:301"
          /\ CacheHit(frame')
          /\ <<frame'.bed, frame'.ref, frame'.scheme_version>> = ret]_vars
====
